---- MODULE Spec2Model ----
(***************************************************************************)
(* A model of index.js (GoogleSpreadsheet): the credential holder, the     *)
(* JWT token renewer, the feed request executor makeFeedRequest, and the   *)
(* facade / entity operations that call it.                                *)
(*                                                                         *)
(* External collaborators are modelled by their answers: the token service *)
(* (jwtClient.authorize calls back with an error or a Bearer token), the   *)
(* HTTP transport (request calls back with an error or a response) and the *)
(* XML parser (xml2js with explicitArray: false).                          *)
(*                                                                         *)
(* Spec    : any construction, one caller who uses the whole public        *)
(*           surface and lets each operation finish before the next.       *)
(* SpecTwo : the session of the test suite with two callers whose feed     *)
(*           operations overlap.                                           *)
(*                                                                         *)
(* `delivered` is an output: it holds what the step just taken handed to   *)
(* the caller and is cleared by the next step.                             *)
(***************************************************************************)
EXTENDS Integers, Sequences, FiniteSets, TLC

\* ---------------------------------------------------------------- bounds
MaxTime == 1        \* the clock (+new Date()) runs over 0..MaxTime
MaxEntries == 2     \* entries in a feed returned by the server
TokenTTL == 1       \* lifetime of a token issued by the token service

\* ---------------------------------------------------------- JS values
\* A credential is absent (null / undefined), a raw string, or an object
\* {type, value, expires}.  Undef stands for a missing `expires`.
Undef == 0 - 1

Absent == [kind |-> "absent", type |-> "", value |-> "", expires |-> Undef]

Legacy(s) == [kind |-> "string", type |-> "", value |-> s, expires |-> Undef]

TokenRecord(t, v, e) == [kind |-> "object", type |-> t, value |-> v, expires |-> e]

\* JS truthiness of a credential: null, undefined and '' are falsy.
Truthy(auth) == auth.kind = "object" \/ (auth.kind = "string" /\ auth.value # "")

\* JS truthiness of an option string ("" stands for a missing option).
Given(opt) == opt # ""

\* String(auth) as used by 'GoogleLogin auth=' + googleAuth.
ToStr(auth) == IF auth.kind = "object" THEN "[object Object]" ELSE auth.value

\* Credentials a caller hands to the constructor or to setAuthToken.
AuthIds ==
  { Absent, Legacy(""), Legacy("legacyTok"),
    TokenRecord("Bearer", "userTok", MaxTime + 1),
    TokenRecord("MAC", "userTok", MaxTime + 1) }

\* The access_token the token service hands out in answer to the authorize
\* call made at time t for the operation in slot c: a fresh one each time.
IssuedToken(c, t) == "jwt." \o c \o "@" \o ToString(t)

\* The overrides a caller passes in options ("" = none).
VisibilityOptions == {"", "private"}

ProjectionOptions == {"", "full"}

\* ------------------------------------------------------------- state
VARIABLES
  options,      \* constructor argument: [visibility, projection], "" = not given
  googleAuth,   \* the stored credential
  visibility,   \* 'public' | 'private'
  projection,   \* 'values' | 'full'
  authMode,     \* 'anonymous' | 'token' | 'jwt'
  jwtClient,    \* TRUE once useServiceAccountAuth has built the JWT client
  now,          \* +new Date()
  calls,        \* the operations in flight, by slot
  delivered     \* what the step just taken handed to the caller (an output)

vars == <<options, googleAuth, visibility, projection, authMode, jwtClient,
          now, calls, delivered>>

\* ------------------------------------------------ JS values in flight
JsUndefined == [kind |-> "undefined"]

JsNull == [kind |-> "null"]

JsTrue == [kind |-> "true"]

JsArray(items) == [kind |-> "array", items |-> items]

\* An Error object, by its message.
JsError(msg) == [kind |-> "Error", message |-> msg]

\* ----------------------------------------------------- the feed server
\* The feed with n entries: entry i of the document is the number i.
Feed(n) == [kind |-> "feed", entries |-> [i \in 1..n |-> i]]

\* Response bodies: '' (no content), text that is not XML, or a feed document
\* with a list of <entry> elements.
Bodies ==
  { [kind |-> "empty", entries |-> <<>>], [kind |-> "malformed", entries |-> <<>>] }
    \cup { Feed(n) : n \in 0..MaxEntries }

Statuses == {200, 201, 400, 401}

ContentTypes == {"application/atom+xml", "text/html"}

\* What the transport hands to request's callback: (err) or (null, response, body).
\* The feed service names a Content-Type on every response.
Responses ==
  { [err |-> TRUE, statusCode |-> 0, contentType |-> "", body |-> [kind |-> "empty", entries |-> <<>>]] }
    \cup { [err |-> FALSE, statusCode |-> st, contentType |-> ct, body |-> b] :
             st \in Statuses, ct \in ContentTypes, b \in Bodies }

\* http.STATUS_CODES
STATUS_CODES(code) ==
  CASE code = 200 -> "OK"
    [] code = 201 -> "Created"
    [] code = 400 -> "Bad Request"
    [] code = 401 -> "Unauthorized"
    [] OTHER -> "undefined"

\* JS truthiness of a response body: '' is falsy.
BodyTruthy(body) == body.kind # "empty"

\* xml2js with explicitArray: false: a child element that occurs once is a bare
\* object, one that occurs several times is an array, one that does not occur
\* is no property at all.
EntryElement(e) == [kind |-> "element", id |-> e]

xmlParser_parseString(body) ==
  IF body.kind = "malformed"
    THEN [err |-> TRUE, result |-> JsUndefined]
    ELSE [err |-> FALSE,
          result |->
            [kind |-> "tree",
             entry |->
               IF Len(body.entries) = 0 THEN JsUndefined
               ELSE IF Len(body.entries) = 1 THEN EntryElement(body.entries[1])
               ELSE JsArray([i \in 1..Len(body.entries) |-> EntryElement(body.entries[i])])]]

\* data.entry / data['entry']: only a parsed tree has the property.
EntryOf(data) == IF data.kind = "tree" THEN data.entry ELSE JsUndefined

\* xml.match(/<entry[^>]*>([\s\S]*?)<\/entry>/g): the fragments in text order,
\* null when nothing matches.
MatchEntries(body) ==
  IF Len(body.entries) = 0 THEN JsNull
  ELSE JsArray([i \in 1..Len(body.entries) |-> [kind |-> "fragment", of |-> body.entries[i]]])

\* A faulty forceArray: a bare (single) value is dropped instead of wrapped.
forceArrayDropsSingle(val) ==
  IF val.kind = "array" THEN val.items ELSE <<>>

forceArray(val) ==
  IF val.kind = "array" THEN val.items
  ELSE IF val.kind \in {"undefined", "null"} THEN <<>>
  ELSE <<val>>

SpreadsheetWorksheet(data) == [class |-> "SpreadsheetWorksheet", data |-> data]

SpreadsheetRow(data, xml) == [class |-> "SpreadsheetRow", data |-> data, xml |-> xml]

SpreadsheetCell(data) == [class |-> "SpreadsheetCell", data |-> data]

\* --------------------------------------------------- credential holder
\* A faulty setAuthAndDependencies: the projection follows a null check
\* instead of the credential's truthiness.
setAuthAndDependenciesNullCheck(opts, auth, vis, proj) ==
  [googleAuth |-> auth,
   visibility |-> IF ~Given(opts.visibility)
                    THEN (IF Truthy(auth) THEN "private" ELSE "public")
                    ELSE vis,
   projection |-> IF ~Given(opts.projection)
                    THEN (IF auth.kind # "absent" THEN "full" ELSE "values")
                    ELSE proj]

setAuthAndDependencies(opts, auth, vis, proj) ==
  [googleAuth |-> auth,
   visibility |-> IF ~Given(opts.visibility)
                    THEN (IF Truthy(auth) THEN "private" ELSE "public")
                    ELSE vis,
   projection |-> IF ~Given(opts.projection)
                    THEN (IF Truthy(auth) THEN "full" ELSE "values")
                    ELSE proj]

\* ------------------------------------------------------------- calls
Idle ==
  [op |-> "", pc |-> "idle", method |-> "", url |-> <<>>, query |-> FALSE,
   headers |-> [hasAuthorization |-> FALSE, Authorization |-> "", contentType |-> ""],
   renewals |-> 0, renewal |-> "", requests |-> 0,
   \* kept for the properties only: the clock and the stored expiry when the
   \* operation started, the credential and the mode when the request was sent
   startedAt |-> 0, expiry |-> "", sentAuth |-> Absent, sentMode |-> ""]

NoDelivery == [op |-> ""]

\* The arguments each operation hands to makeFeedRequest: path segments (an
\* array) or an absolute edit link (a string), the method, and whether a truthy
\* query object goes with a GET.
FeedArgs(op) ==
  CASE op = "getInfo"  -> [segments |-> <<"worksheets", "ssKey">>, method |-> "GET", query |-> FALSE]
    [] op = "getRows"  -> [segments |-> <<"list", "ssKey", "wsId">>, method |-> "GET", query |-> TRUE]
    [] op = "addRow"   -> [segments |-> <<"list", "ssKey", "wsId">>, method |-> "POST", query |-> FALSE]
    [] op = "getCells" -> [segments |-> <<"cells", "ssKey", "wsId">>, method |-> "GET", query |-> TRUE]
    [] op = "Row.del"  -> [segments |-> <<>>, method |-> "DELETE", query |-> FALSE]
    [] OTHER           -> [segments |-> <<>>, method |-> "PUT", query |-> FALSE]

EditLink == <<"https://spreadsheets.google.com/feeds/list/ssKey/wsId/private/full/rowId">>

\* Operations that hand the caller the promise (nodeify(cb) on it) and those
\* that drop it and never look at cb.
ReturnsPromise(op) == op \notin {"Row.save", "Cell.setValue", "Cell.save", "Cell.del"}

\* ------------------------------------------------ the request executor
\* A faulty header: the Bearer branch is missing.
AuthorizationHeaderLegacyOnly(auth) ==
  IF Truthy(auth)
    THEN [hasAuthorization |-> TRUE, Authorization |-> "GoogleLogin auth=" \o ToStr(auth)]
    ELSE [hasAuthorization |-> FALSE, Authorization |-> ""]

\* The Authorization header built from the stored credential (lines 117-123).
AuthorizationHeader(auth) ==
  IF Truthy(auth)
    THEN IF auth.kind = "object" /\ auth.type = "Bearer"
           THEN [hasAuthorization |-> TRUE, Authorization |-> "Bearer " \o auth.value]
           ELSE [hasAuthorization |-> TRUE, Authorization |-> "GoogleLogin auth=" \o ToStr(auth)]
    ELSE [hasAuthorization |-> FALSE, Authorization |-> ""]

\* url = GOOGLE_FEED_URL + urlParams.join('/') after push(visibility, projection),
\* kept as its path segments; an edit link is used as it is.
FeedUrl(segments, vis, proj) ==
  IF segments = <<>> THEN EditLink ELSE segments \o <<vis, proj>>

\* A faulty expiry check: a token that expires this very instant still counts.
NotExpiredInclusive(auth, t) == auth.expires # Undef /\ auth.expires >= t

\* googleAuth.expires > +new Date(); a missing expires compares false.
NotExpired(auth, t) == auth.expires # Undef /\ auth.expires > t

\* How the stored expiry stands to the clock, in the words of the
\* specification: in the past (or now), in the future, or not there at all.
ExpiryAt(auth, t) ==
  IF auth.expires = Undef THEN "missing"
  ELSE IF auth.expires <= t THEN "expired"
  ELSE "future"

\* A faulty classification: the status >= 400 test comes before the 401 test.
ClassifyStatusFirst(resp) ==
  IF resp.err
    THEN [state |-> "rejected", value |-> JsError("network")]
  ELSE IF resp.statusCode >= 400
    THEN [state |-> "rejected",
          value |-> [kind |-> "string",
                     text |-> <<"Error: HTTP error ", resp.statusCode, ": ",
                                STATUS_CODES(resp.statusCode), " ",
                                <<"JSON", resp.body>> >>]]
  ELSE IF resp.statusCode = 200 /\ resp.contentType = "text/html"
    THEN [state |-> "rejected", value |-> JsError("Sheet is private. Use authentication or make public.")]
  ELSE IF BodyTruthy(resp.body)
    THEN LET parsed == xmlParser_parseString(resp.body)
         IN  IF parsed.err
               THEN [state |-> "rejected", value |-> JsError("xml parse error")]
               ELSE [state |-> "resolved",
                     value |-> JsArray(<<parsed.result, [kind |-> "text", xml |-> resp.body]>>)]
  ELSE [state |-> "resolved", value |-> JsArray(<<JsTrue>>)]

\* The outcome of request's callback (lines 138-158): how makeFeedRequest's
\* promise is settled.
Classify(resp) ==
  IF resp.err
    THEN [state |-> "rejected", value |-> JsError("network")]
  ELSE IF resp.statusCode = 401
    THEN [state |-> "rejected", value |-> JsError("Invalid authorization key.")]
  ELSE IF resp.statusCode >= 400
    THEN [state |-> "rejected",
          value |-> [kind |-> "string",
                     text |-> <<"Error: HTTP error ", resp.statusCode, ": ",
                                STATUS_CODES(resp.statusCode), " ",
                                <<"JSON", resp.body>> >>]]
  ELSE IF resp.statusCode = 200 /\ resp.contentType = "text/html"
    THEN [state |-> "rejected", value |-> JsError("Sheet is private. Use authentication or make public.")]
  ELSE IF BodyTruthy(resp.body)
    THEN LET parsed == xmlParser_parseString(resp.body)
         IN  IF parsed.err
               THEN [state |-> "rejected", value |-> JsError("xml parse error")]
               ELSE [state |-> "resolved",
                     value |-> JsArray(<<parsed.result, [kind |-> "text", xml |-> resp.body]>>)]
  ELSE [state |-> "resolved", value |-> JsArray(<<JsTrue>>)]

\* ------------------------------------------------------- the facade
\* What the function handed to .spread / .then makes of makeFeedRequest's
\* settled promise, for each operation.  A feed document carries its title.
getInfoThen(data) ==
  IF data.kind = "true"
    THEN [state |-> "rejected", value |-> JsError("No response to getInfo call")]
    ELSE LET worksheets == forceArray(EntryOf(data))
         IN  [state |-> "resolved",
              value |-> [kind |-> "info",
                         worksheets |-> [i \in 1..Len(worksheets) |-> SpreadsheetWorksheet(worksheets[i])]]]

getRowsThen(data, xml) ==
  IF data.kind = "true"
    THEN [state |-> "rejected", value |-> JsError("No response to getRows call")]
    ELSE LET entries_xml == MatchEntries(xml.xml)
             entries == forceArray(EntryOf(data))
         IN  IF Len(entries) > 0 /\ entries_xml.kind = "null"
               THEN [state |-> "rejected", value |-> JsError("TypeError")]
               ELSE [state |-> "resolved",
                     value |-> JsArray([i \in 1..Len(entries) |->
                                          SpreadsheetRow(entries[i], entries_xml.items[i])])]

\* getCells uses .then, so `data` is the whole array makeFeedRequest resolved
\* with and there is no second argument.
getCellsThen(data) ==
  IF data.kind = "true"
    THEN [state |-> "rejected", value |-> JsError("No response to getCells call")]
    ELSE LET entries == forceArray(EntryOf(data))
         IN  [state |-> "resolved",
              value |-> JsArray([i \in 1..Len(entries) |-> SpreadsheetCell(entries[i])])]

Facade(op, settled) ==
  IF settled.state = "rejected" THEN settled
  ELSE CASE op = "getInfo"  -> getInfoThen(settled.value.items[1])
         [] op = "getRows"  -> getRowsThen(settled.value.items[1],
                                           IF Len(settled.value.items) > 1
                                             THEN settled.value.items[2] ELSE JsUndefined)
         [] op = "getCells" -> getCellsThen(settled.value)
         [] OTHER           -> settled

\* What reaches the caller once the operation's promise has settled: the
\* promise it was handed and the callback it passed, if the operation kept them.
Deliver(call, settled, resp) ==
  LET out == Facade(call.op, settled)
  IN  [op |-> call.op,
       feed |-> settled,
       awaitable |-> IF ReturnsPromise(call.op) THEN out.state ELSE "none",
       value |-> IF ReturnsPromise(call.op) THEN out.value ELSE JsUndefined,
       cbCalls |-> IF ReturnsPromise(call.op) THEN 1 ELSE 0,
       cbErr |-> ReturnsPromise(call.op) /\ out.state = "rejected",
       resp |-> resp]

NoResponse ==
  [err |-> FALSE, statusCode |-> 0, contentType |-> "", body |-> [kind |-> "empty", entries |-> <<>>]]

\* ------------------------------------------------------ construction
\* new GoogleSpreadsheet(ssKey, authId, options) with a spreadsheet key.
Constructed(slots) ==
  \E v \in VisibilityOptions, p \in ProjectionOptions, authId \in AuthIds :
    LET set == setAuthAndDependencies([visibility |-> v, projection |-> p], authId, "public", "values")
    IN  /\ options = [visibility |-> v, projection |-> p]
        /\ googleAuth = set.googleAuth
        /\ visibility = set.visibility
        /\ projection = set.projection
        /\ authMode = "anonymous"
        /\ jwtClient = FALSE
        /\ now = 0
        /\ calls = [c \in slots |-> Idle]
        /\ delivered = NoDelivery

\* One caller, who lets each operation finish before starting the next.
Init == Constructed({"caller"})

\* ------------------------------------------------ credential actions
\* The state change of this.setAuthToken(authId).
setAuthToken(authId) ==
  LET set == setAuthAndDependencies(options, authId, visibility, projection)
  IN  /\ authMode' = IF authMode = "anonymous" THEN "token" ELSE authMode
      /\ googleAuth' = set.googleAuth
      /\ visibility' = set.visibility
      /\ projection' = set.projection

SetAuthToken(authId) ==
  /\ setAuthToken(authId)
  /\ delivered' = NoDelivery
  /\ UNCHANGED <<options, jwtClient, now, calls>>

\* setAuth(username, password, cb): always rejects, changes nothing.
SetAuth ==
  /\ delivered' = [op |-> "setAuth",
                   feed |-> [state |-> "none", value |-> JsUndefined],
                   awaitable |-> "rejected",
                   value |-> JsError("Google has officially deprecated ClientLogin."),
                   cbCalls |-> 1, cbErr |-> TRUE, resp |-> NoResponse]
  /\ UNCHANGED <<options, googleAuth, visibility, projection, authMode, jwtClient, now, calls>>

\* useServiceAccountAuth(creds, cb): builds the JWT client; the renewal runs
\* from the promise chain, one turn later.
UseServiceAccountAuth(c) ==
  /\ calls[c].pc = "idle"
  /\ jwtClient' = TRUE
  /\ calls' = [calls EXCEPT ![c] = [Idle EXCEPT !.op = "useServiceAccountAuth", !.pc = "scheduled"]]
  /\ delivered' = NoDelivery
  /\ UNCHANGED <<options, googleAuth, visibility, projection, authMode, now>>

\* renewJwtAuth, up to the call of jwtClient.authorize, for the call in slot c.
renewJwtAuth(c, call) ==
  /\ authMode' = "jwt"
  /\ calls' = [calls EXCEPT ![c] = [call EXCEPT !.pc = "authorizing",
                                                !.renewals = call.renewals + 1,
                                                !.renewal = "pending"]]

ServiceAccountRenew(c) ==
  /\ calls[c].pc = "scheduled"
  /\ renewJwtAuth(c, calls[c])
  /\ delivered' = NoDelivery
  /\ UNCHANGED <<options, googleAuth, visibility, projection, jwtClient, now>>

\* ------------------------------------------------ makeFeedRequest
\* The synchronous part of an operation: the URL is built and the `auth` task
\* of async.series runs.
StartCall(c, op) ==
  LET args == FeedArgs(op)
      call == [Idle EXCEPT !.op = op,
                           !.method = args.method,
                           !.url = FeedUrl(args.segments, visibility, projection),
                           !.query = args.query,
                           !.startedAt = now,
                           !.expiry = IF authMode = "jwt" THEN ExpiryAt(googleAuth, now) ELSE "n/a"]
  IN  /\ calls[c].pc = "idle"
      /\ IF authMode # "jwt"
           THEN /\ calls' = [calls EXCEPT ![c] = [call EXCEPT !.pc = "request"]]
                /\ delivered' = NoDelivery
                /\ UNCHANGED authMode
         ELSE IF googleAuth.kind = "absent"
           \* googleAuth.expires on null throws inside the promise's executor
           THEN /\ delivered' = Deliver(call,
                                        [state |-> "rejected", value |-> JsError("TypeError")],
                                        NoResponse)
                /\ UNCHANGED <<calls, authMode>>
         ELSE IF NotExpired(googleAuth, now)
           THEN /\ calls' = [calls EXCEPT ![c] = [call EXCEPT !.pc = "request"]]
                /\ delivered' = NoDelivery
                /\ UNCHANGED authMode
         ELSE /\ renewJwtAuth(c, call)
              /\ delivered' = NoDelivery
      /\ UNCHANGED <<options, googleAuth, visibility, projection, jwtClient, now>>

GetInfo(c) == StartCall(c, "getInfo")

GetRows(c) == StartCall(c, "getRows")

AddRow(c) == StartCall(c, "addRow")

GetCells(c) == StartCall(c, "getCells")

RowSave(c) == StartCall(c, "Row.save")

RowDel(c) == StartCall(c, "Row.del")

CellSave(c) == StartCall(c, "Cell.save")

CellSetValue(c) == StartCall(c, "Cell.setValue")

CellDel(c) == StartCall(c, "Cell.del")

\* jwtClient.authorize calls back with an error.
AuthorizeFails(c) ==
  /\ calls[c].pc = "authorizing"
  /\ IF calls[c].op = "useServiceAccountAuth"
       THEN /\ delivered' = [op |-> "useServiceAccountAuth",
                             feed |-> [state |-> "none", value |-> JsUndefined],
                             awaitable |-> "rejected", value |-> JsError("authorize"),
                             cbCalls |-> 1, cbErr |-> TRUE, resp |-> NoResponse]
            /\ calls' = [calls EXCEPT ![c] = Idle]
       \* step(err): async.series stops, and it was given no final callback
       ELSE /\ calls' = [calls EXCEPT ![c].pc = "hung", ![c].renewal = "failed"]
            /\ delivered' = NoDelivery
  /\ UNCHANGED <<options, googleAuth, visibility, projection, authMode, jwtClient, now>>

\* jwtClient.authorize calls back with a token.
AuthorizeSucceeds(c) ==
  /\ calls[c].pc = "authorizing"
  /\ setAuthToken(TokenRecord("Bearer", IssuedToken(c, now), now + TokenTTL))
  /\ IF calls[c].op = "useServiceAccountAuth"
       THEN /\ delivered' = [op |-> "useServiceAccountAuth",
                             feed |-> [state |-> "none", value |-> JsUndefined],
                             awaitable |-> "resolved", value |-> JsUndefined,
                             cbCalls |-> 1, cbErr |-> FALSE, resp |-> NoResponse]
            /\ calls' = [calls EXCEPT ![c] = Idle]
       ELSE /\ calls' = [calls EXCEPT ![c].pc = "request", ![c].renewal = "ok"]
            /\ delivered' = NoDelivery
  /\ UNCHANGED <<options, jwtClient, now>>

\* The `request` task of async.series: headers, then the HTTP request is sent.
SendRequest(c) ==
  LET call == calls[c]
      authorization == AuthorizationHeader(googleAuth)
  IN  /\ call.pc = "request"
      /\ calls' = [calls EXCEPT ![c] =
           [call EXCEPT !.pc = "http",
                        !.headers = [hasAuthorization |-> authorization.hasAuthorization,
                                     Authorization |-> authorization.Authorization,
                                     contentType |-> IF call.method \in {"POST", "PUT"}
                                                       THEN "application/atom+xml" ELSE ""],
                        !.sentAuth = googleAuth,
                        !.sentMode = authMode,
                        !.requests = call.requests + 1]]
      /\ delivered' = NoDelivery
      /\ UNCHANGED <<options, googleAuth, visibility, projection, authMode, jwtClient, now>>

\* request's callback.
HttpCallback(c, resp) ==
  /\ calls[c].pc = "http"
  /\ delivered' = Deliver(calls[c], Classify(resp), resp)
  /\ calls' = [calls EXCEPT ![c] = Idle]
  /\ UNCHANGED <<options, googleAuth, visibility, projection, authMode, jwtClient, now>>

Tick ==
  /\ now < MaxTime
  /\ now' = now + 1
  /\ delivered' = NoDelivery
  /\ UNCHANGED <<options, googleAuth, visibility, projection, authMode, jwtClient, calls>>

Next ==
  \/ \E authId \in AuthIds : SetAuthToken(authId)
  \/ SetAuth
  \/ \E c \in DOMAIN calls : UseServiceAccountAuth(c)
  \/ \E c \in DOMAIN calls : ServiceAccountRenew(c)
  \/ \E c \in DOMAIN calls : GetInfo(c)
  \/ \E c \in DOMAIN calls : GetRows(c)
  \/ \E c \in DOMAIN calls : AddRow(c)
  \/ \E c \in DOMAIN calls : GetCells(c)
  \/ \E c \in DOMAIN calls : RowSave(c)
  \/ \E c \in DOMAIN calls : RowDel(c)
  \/ \E c \in DOMAIN calls : CellSave(c)
  \/ \E c \in DOMAIN calls : CellSetValue(c)
  \/ \E c \in DOMAIN calls : CellDel(c)
  \/ \E c \in DOMAIN calls : AuthorizeFails(c)
  \/ \E c \in DOMAIN calls : AuthorizeSucceeds(c)
  \/ \E c \in DOMAIN calls : SendRequest(c)
  \/ \E c \in DOMAIN calls, resp \in Responses : HttpCallback(c, resp)
  \/ Tick

Spec == Init /\ [][Next]_vars

\* ------------------------------------------- two overlapping operations
\* The session of the test suite: the document is opened without a credential
\* or options, the service account is set up, and two callers issue feed
\* operations that may overlap.
InitTwo ==
  /\ options = [visibility |-> "", projection |-> ""]
  /\ googleAuth = Absent
  /\ visibility = "public"
  /\ projection = "values"
  /\ authMode = "anonymous"
  /\ jwtClient = FALSE
  /\ now = 0
  /\ calls = [c \in {"A", "B"} |-> Idle]
  /\ delivered = NoDelivery

NextTwo ==
  \/ \E c \in DOMAIN calls : jwtClient = FALSE /\ UseServiceAccountAuth(c)
  \/ \E c \in DOMAIN calls : ServiceAccountRenew(c)
  \/ \E c \in DOMAIN calls : jwtClient /\ GetRows(c)
  \/ \E c \in DOMAIN calls : jwtClient /\ RowDel(c)
  \/ \E c \in DOMAIN calls : AuthorizeFails(c)
  \/ \E c \in DOMAIN calls : AuthorizeSucceeds(c)
  \/ \E c \in DOMAIN calls : SendRequest(c)
  \/ \E c \in DOMAIN calls, resp \in Responses : HttpCallback(c, resp)
  \/ Tick

SpecTwo == InitTwo /\ [][NextTwo]_vars

\* ====================================================== properties
InFlight == {c \in DOMAIN calls : calls[c].pc # "idle" /\ calls[c].op # "useServiceAccountAuth"}

Sent == {c \in InFlight : calls[c].pc = "http"}

\* The step just taken handed the outcome of a feed operation whose HTTP
\* request was answered.
Answered == delivered.op # "" /\ delivered.resp # NoResponse

FalsyAuth(auth) == auth.kind = "absent" \/ (auth.kind = "string" /\ auth.value = "")

\* C1 (as amended): every request makeFeedRequest sends carries the header that
\* matches the shape of the credential stored when it is sent: 'Bearer <value>'
\* for an object of type Bearer, 'GoogleLogin auth=<value>' for a non-empty
\* string, and no Authorization header exactly when the credential is absent
\* or empty -- whatever the auth mode.
C1_HeaderMatchesCredential ==
  \A c \in Sent :
    LET auth == calls[c].sentAuth
        h == calls[c].headers
    IN  /\ (auth.kind = "object" /\ auth.type = "Bearer")
             => (h.hasAuthorization /\ h.Authorization = "Bearer " \o auth.value)
        /\ (auth.kind = "object" /\ auth.type # "Bearer")
             => (h.hasAuthorization /\ h.Authorization = "GoogleLogin auth=[object Object]")
        /\ (auth.kind = "string" /\ auth.value # "")
             => (h.hasAuthorization /\ h.Authorization = "GoogleLogin auth=" \o auth.value)
        /\ FalsyAuth(auth) <=> ~h.hasAuthorization

\* C1: a request has been sent in jwt mode with the Bearer token the token
\* service issued.
C1_Witness ==
  \E c \in Sent :
    /\ calls[c].sentMode = "jwt"
    /\ calls[c].sentAuth.kind = "object"
    /\ calls[c].headers.Authorization = "Bearer " \o calls[c].sentAuth.value

\* C1 as stated: Bearer for a bearer record, GoogleLogin for a legacy token
\* string, and no Authorization header when the auth mode is anonymous.
C1_AsStated ==
  \A c \in Sent :
    LET auth == calls[c].sentAuth
        h == calls[c].headers
    IN  /\ (auth.kind = "object" /\ auth.type = "Bearer")
             => (h.hasAuthorization /\ h.Authorization = "Bearer " \o auth.value)
        /\ (auth.kind = "string" /\ auth.value # "")
             => (h.hasAuthorization /\ h.Authorization = "GoogleLogin auth=" \o auth.value)
        /\ calls[c].sentMode = "anonymous" => ~h.hasAuthorization

\* C2 (as amended): in jwt mode an operation started with a stored expiry <= now
\* makes exactly one renewal call and sends its feed request only after that
\* renewal succeeded: one request once it succeeded, none when it failed.  An
\* operation started with a future expiry makes no renewal call and sends
\* one request.
C2_RenewalBeforeRequest ==
  \A c \in InFlight :
    LET call == calls[c]
    IN  /\ call.expiry = "expired" =>
             /\ call.renewals = 1
             /\ call.requests = 1 => call.renewal = "ok"
             /\ call.renewal = "failed" => (call.requests = 0 /\ call.pc = "hung")
             /\ call.pc = "http" <=> call.requests = 1
             /\ call.requests <= 1
        /\ call.expiry = "future" =>
             /\ call.renewals = 0
             /\ call.pc \in {"request", "http"}
             /\ call.pc = "http" <=> call.requests = 1
             /\ call.requests <= 1

\* C2: an operation that found the token expired has renewed it and sent its
\* feed request.
C2_Witness ==
  \E c \in Sent :
    /\ calls[c].expiry = "expired"
    /\ calls[c].renewals = 1
    /\ calls[c].renewal = "ok"
    /\ calls[c].requests = 1

\* C2 as stated: one renewal call for an expired token, none for a future
\* expiry, and in both cases exactly one feed request: an operation that is
\* neither waiting for the token service nor about to send has sent one.
C2_AsStated ==
  \A c \in InFlight :
    LET call == calls[c]
    IN  call.expiry \in {"expired", "future"} =>
          /\ call.renewals = (IF call.expiry = "expired" THEN 1 ELSE 0)
          /\ call.requests = 1 => (call.expiry = "expired" => call.renewal = "ok")
          /\ call.pc \notin {"authorizing", "request"} => call.requests = 1

\* C3: when the renewal triggered by the expiry check fails, no feed request is
\* sent and the promise of makeFeedRequest is rejected with the renewal's
\* error: no operation is left with its renewal failed and its promise pending.
C3_RenewalFailureRejects ==
  \A c \in InFlight :
    calls[c].renewal = "failed" => (calls[c].requests = 0 /\ calls[c].pc # "hung")

\* What makeFeedRequest's promise must be for a response, case by case.
NetworkError(r) == r.err

Http401(r) == ~r.err /\ r.statusCode = 401

HttpError(r) == ~r.err /\ r.statusCode # 401 /\ r.statusCode >= 400

PrivateSheet(r) == ~r.err /\ r.statusCode = 200 /\ r.contentType = "text/html"

Success(r) == ~r.err /\ r.statusCode < 400 /\ ~PrivateSheet(r)

ErrorsClassified(r, p) ==
  /\ NetworkError(r) => (p.state = "rejected" /\ p.value = JsError("network"))
  /\ Http401(r) => (p.state = "rejected" /\ p.value = JsError("Invalid authorization key."))
  /\ HttpError(r) =>
       /\ p.state = "rejected"
       /\ p.value.kind = "string"
       /\ p.value.text[2] = r.statusCode
       /\ p.value.text[4] = STATUS_CODES(r.statusCode)
       /\ p.value.text[6] = <<"JSON", r.body>>
  /\ PrivateSheet(r) =>
       (p.state = "rejected"
          /\ p.value = JsError("Sheet is private. Use authentication or make public."))

ResolvedWithFeed(r, p) ==
  /\ p.state = "resolved"
  /\ Len(p.value.items) = 2
  /\ p.value.items[1].kind = "tree"
  /\ p.value.items[2] = [kind |-> "text", xml |-> r.body]

ResolvedWithSentinel(p) == p.state = "resolved" /\ p.value = JsArray(<<JsTrue>>)

C5_OneCellPerEntry ==
  (Answered /\ delivered.op = "getCells" /\ delivered.feed.state = "resolved") =>
    LET entries == delivered.resp.body.entries
    IN  IF delivered.resp.body.kind = "empty"
          THEN /\ delivered.awaitable = "rejected"
               /\ delivered.value = JsError("No response to getCells call")
          ELSE /\ delivered.awaitable = "resolved"
               /\ delivered.value.kind = "array"
               /\ Len(delivered.value.items) = Len(entries)
               /\ \A i \in 1..Len(entries) :
                    delivered.value.items[i] = SpreadsheetCell(EntryElement(entries[i]))

\* C6: with a visibility and/or projection override in the constructor's
\* options, every URL built from path segments ends with that visibility and
\* that projection.
C6_OverridesInUrl ==
  \A c \in InFlight :
    FeedArgs(calls[c].op).segments # <<>> =>
      LET url == calls[c].url
      IN  /\ Given(options.visibility) => url[Len(url) - 1] = options.visibility
          /\ Given(options.projection) => url[Len(url)] = options.projection

\* C7: a failure of the request of any operation reaches the caller: its
\* callback is invoked exactly once, with the error, or it holds a promise
\* that is rejected.
C7_FailureReachesCaller ==
  (delivered.op # "" /\ delivered.feed.state = "rejected") =>
    \/ (delivered.cbCalls = 1 /\ delivered.cbErr)
    \/ delivered.awaitable = "rejected"

\* The mapped objects getInfo / getRows resolved with.
Mapped == IF delivered.op = "getInfo" THEN delivered.value.worksheets ELSE delivered.value.items

\* C8: getInfo and getRows resolve to a list with one mapped object per feed
\* entry, in feed order: length 1 for a single entry, empty for none.
C8_OneObjectPerEntry ==
  (Answered /\ delivered.op \in {"getInfo", "getRows"}
     /\ delivered.feed.state = "resolved" /\ delivered.resp.body.kind = "feed") =>
    LET entries == delivered.resp.body.entries
    IN  /\ delivered.awaitable = "resolved"
        /\ delivered.cbErr = FALSE
        /\ Len(Mapped) = Len(entries)
        /\ \A i \in 1..Len(entries) : Mapped[i].data = EntryElement(entries[i])
        /\ delivered.op = "getRows" =>
             \A i \in 1..Len(entries) : Mapped[i].xml = [kind |-> "fragment", of |-> entries[i]]

\* C8: getInfo has resolved for a document with a single worksheet.
C8_Witness ==
  /\ Answered
  /\ delivered.op = "getInfo"
  /\ delivered.awaitable = "resolved"
  /\ Len(delivered.resp.body.entries) = 1
  /\ Len(delivered.value.worksheets) = 1

\* The tokens the renewals of the operations in flight can have installed.
RenewedTokens == {IssuedToken(c, t) : c \in DOMAIN calls, t \in 0..MaxTime}

\* Both callers have an operation in flight that was started in jwt mode on
\* an expired token.
BothStartedExpired ==
  \A c \in DOMAIN calls : c \in InFlight /\ calls[c].expiry = "expired"

\* C9: two operations started in jwt mode on an expired token each renew once,
\* and each sends its request only after its own renewal succeeded, with a
\* Bearer header carrying a renewed token (not the expired one); the stored
\* credential is then a renewed token.
C9_RenewalsSafe ==
  BothStartedExpired =>
    \A c \in DOMAIN calls :
      LET call == calls[c]
      IN  /\ call.renewals = 1
          /\ call.pc = "http" =>
               /\ call.renewal = "ok"
               /\ call.sentAuth.kind = "object"
               /\ call.sentAuth.value \in RenewedTokens
               /\ call.sentAuth.expires > call.startedAt
               /\ call.headers.Authorization = "Bearer " \o call.sentAuth.value
          /\ call.renewal = "ok" =>
               /\ googleAuth.kind = "object"
               /\ googleAuth.value \in RenewedTokens
               /\ googleAuth.expires > call.startedAt

\* C9: ... and both operations settle: neither is left pending with nothing
\* outstanding.
C9_ConcurrentRenewals ==
  /\ C9_RenewalsSafe
  /\ BothStartedExpired => \A c \in DOMAIN calls : calls[c].pc # "hung"

\* C10: without overrides, visibility is 'private' and projection 'full' exactly
\* when the stored credential is truthy, 'public' and 'values' exactly when it
\* is not.
C10_VisibilityFollowsCredential ==
  (~Given(options.visibility) /\ ~Given(options.projection)) =>
    /\ ~FalsyAuth(googleAuth) <=> (visibility = "private" /\ projection = "full")
    /\ FalsyAuth(googleAuth) <=> (visibility = "public" /\ projection = "values")

\* C10: after setAuthToken('') the mode is 'token' and the feeds are public.
C10_Witness ==
  /\ ~Given(options.visibility) /\ ~Given(options.projection)
  /\ authMode = "token"
  /\ googleAuth = Legacy("")
  /\ visibility = "public"
  /\ projection = "values"

====
